---- MODULE Spec2Model ----
(***************************************************************************)
(* docrelief-ai frontend: the README generation workflow.                  *)
(*                                                                         *)
(*   PublicRepoTab.handleGenerate  (Generation Request Issuer)             *)
(*   api.pollReadmeStatus          (Status Poller)                         *)
(*   LoadingPage polling effect    (polling view)                          *)
(*   PreviewPage.loadReadme        (Result Presenter, initial load)        *)
(*                                                                         *)
(* The browser runs one event loop: every action below is one task of it   *)
(* (a user event, a network response, a timer) together with the promise   *)
(* continuations that task resolves.                                       *)
(***************************************************************************)
EXTENDS Integers, Sequences, FiniteSets, TLC

VARIABLES
    hist,       \* session history of the router: entries [route, id, url]
    idx,        \* index of the current entry in hist
    tab,        \* PublicRepoTab state: [repoUrl, isSubmitting]
    loading,    \* LoadingPage state: [error]
    preview,    \* PreviewPage state: [readmeId, repoUrl, content, isLoading, error,
                \*                     isRegenerating, showSuccess]
    creates,    \* creation requests in flight: [url, owner, mounted]
    loads,      \* getReadme requests of loadReadme in flight: [job, mounted]
    pollers,    \* calls of pollReadmeStatus: see NewPoller
    jobs,       \* backend records, job id = index
    storage,    \* localStorage: [session_token]
    acks,       \* updateReadmeDownloaded requests in flight: job ids
    sync,       \* the two panes of PreviewPage and isScrollingRef: see SyncInit
    ev          \* what the last task did: see Event

vars == <<hist, idx, tab, loading, preview, creates, loads, pollers, jobs,
          storage, acks, sync, ev>>

----
(* Bounds of the model *)

MaxJobs == 2        \* jobs the backend creates
MaxInFlight == 2    \* requests of one kind in flight at once
MaxAcks == 1        \* mark-downloaded requests in flight at once
MaxPollers == 2     \* calls of pollReadmeStatus running at once
MaxHist == 2        \* history entries kept
MaxN == 3           \* attempt ceilings 1..MaxN of the call studied alone (PollSpec)
PageAttempts == 2   \* the ceiling the pages poll with (the default, 15 in api.js, scaled down)
MaxExtent == 3      \* scrollable extents 0..MaxExtent of the editor and of the preview pane

----
(* Messages *)

TimeoutMsg == "README generation timed out"
FailedMsg == "README generation failed"
NetworkMsg == "Network Error"
InvalidUrlToast == "Please enter a valid GitHub repository URL"
NotFoundToast == "Repository not found or is private. For private repos, use the 'Private Repo' tab."
ConnectToast == "Failed to connect to server. Please try again."
DefaultDetail == "An error occurred"
NoIdMsg == "No README ID found"
LoadFailedMsg == "Could not fetch from server, but you can still edit locally."
PollFailedMsg == "Failed to generate README"
NoRepoMsg == "Repository URL not available"
RegenFailedMsg == "Failed to regenerate README"
StatusCodeMsg == "Request failed with status code"
DownloadToast == "README download started!"
DownloadFailedToast == "Download failed. Please try again."
NotFoundPageMsg == "The README you're looking for doesn't exist or has been removed."

----
(* Source references, as token sequences *)

Blank == " "
Host == "github.com"
DotGit == ".git"

IsWord(t) == t \in {"acme", "widgets", "github.com", "gitlab.com", ".git"}

UrlOk == <<"https://", "github.com", "/", "acme", "/", "widgets">>

\* what the user types: blank, a reference that is valid once cleaned, a
\* reference without a repository name
Urls ==
    { <<" ">>,
      <<" ">> \o UrlOk \o <<".git", "/", " ">>,
      <<"https://", "github.com", "/", "acme", "/", ".git">> }

RECURSIVE TrimLeft(_)
TrimLeft(s) == IF s # <<>> /\ Head(s) = Blank THEN TrimLeft(Tail(s)) ELSE s

RECURSIVE TrimRight(_)
TrimRight(s) ==
    IF s # <<>> /\ s[Len(s)] = Blank THEN TrimRight(SubSeq(s, 1, Len(s) - 1)) ELSE s

Trim(s) == TrimRight(TrimLeft(s))

StripLast(s, t) ==
    IF s # <<>> /\ s[Len(s)] = t THEN SubSeq(s, 1, Len(s) - 1) ELSE s

CleanUrl(url) == StripLast(StripLast(Trim(url), "/"), DotGit)

\* /github\.com[/:]([\w\.-]+)\/([\w\.-]+)/i, unanchored
PatternTest(s) ==
    \E i \in 1..Len(s) :
        /\ s[i] = Host
        /\ i + 4 <= Len(s)
        /\ s[i + 1] \in {"/", ":"}
        /\ \E j \in (i + 2)..(Len(s) - 2) :
              /\ \A k \in (i + 2)..j : IsWord(s[k])
              /\ s[j + 1] = "/"
              /\ IsWord(s[j + 2])

validateGitHubUrl(url) ==
    IF Trim(url) = <<>> THEN FALSE ELSE PatternTest(CleanUrl(url))

----
(* Backend records (GenerationJob) *)

Contents == {"# widgets", ""}
Details == {"clone failed", "", TimeoutMsg}

\* what a rejected creation request answers with: no response (0) or a status
\* code, and the `detail` of its body ("" when the body has none)
Statuses == {0, 400, 403, 404, 500}
ErrorDetails == {"", "Rate limit exceeded"}

\* the session_token of a creation response, "" when it has none
Tokens == {"", "tok-1"}

NoRecord == [status |-> "none", readme_content |-> "", repo_url |-> <<>>]

NewJob(url) == [status |-> "pending", readme_content |-> "", repo_url |-> url]

IsTerminal(status) == status \in {"completed", "failed"}

----
(* api.pollReadmeStatus *)

NoOutcome == [kind |-> "none", msg |-> "", data |-> NoRecord]
Resolved(data) == [kind |-> "resolved", msg |-> "", data |-> data]
Rejected(msg) == [kind |-> "rejected", msg |-> msg, data |-> NoRecord]

LoopContinuesInclusive(attempt, maxAttempts) == attempt <= maxAttempts

\* for (let attempt = 0; attempt < maxAttempts; attempt++)
LoopContinues(attempt, maxAttempts) == attempt < maxAttempts

PollOutcomeCompletedOnly(data) ==
    IF data.status = "completed" THEN Resolved(data) ELSE NoOutcome

PollOutcomeStatusOnly(data) ==
    IF data.status = "completed" THEN Resolved([NoRecord EXCEPT !.status = data.status])
    ELSE IF data.status = "failed"
         THEN Rejected(IF data.readme_content # "" THEN data.readme_content ELSE FailedMsg)
         ELSE NoOutcome

\* the body of the loop after `await getReadme`: what the call settles with,
\* NoOutcome when it goes on to wait
PollOutcome(data) ==
    IF data.status = "completed" THEN Resolved(data)
    ELSE IF data.status = "failed"
         THEN Rejected(IF data.readme_content # "" THEN data.readme_content ELSE FailedMsg)
         ELSE NoOutcome

\* the call up to its first await: the loop test, then the first getReadme
NewPoller(job, maxAttempts, owner) ==
    IF LoopContinues(0, maxAttempts)
    THEN [job |-> job, maxAttempts |-> maxAttempts, attempt |-> 0, pc |-> "fetching",
          fetches |-> 1, delays |-> 0, seen |-> "none", out |-> NoOutcome,
          owner |-> owner, mounted |-> TRUE]
    ELSE [job |-> job, maxAttempts |-> maxAttempts, attempt |-> 0, pc |-> "done",
          fetches |-> 0, delays |-> 0, seen |-> "none", out |-> Rejected(TimeoutMsg),
          owner |-> owner, mounted |-> TRUE]

\* the response of getReadme arrives with `data`
PollerOnData(p, data) ==
    LET o == PollOutcome(data) IN
    IF o.kind # "none"
    THEN [p EXCEPT !.pc = "done", !.seen = data.status, !.out = o]
    ELSE [p EXCEPT !.pc = "waiting", !.seen = data.status, !.delays = @ + 1]

PollerOnErrorRetry(p) ==
    [p EXCEPT !.pc = "waiting", !.seen = "error", !.delays = @ + 1]

\* getReadme rejects: the error leaves the loop
PollerOnError(p) ==
    [p EXCEPT !.pc = "done", !.seen = "error", !.out = Rejected(NetworkMsg)]

\* the timer of the wait fires: attempt++, the loop test, the next getReadme
PollerOnTimer(p) ==
    IF LoopContinues(p.attempt + 1, p.maxAttempts)
    THEN [p EXCEPT !.attempt = @ + 1, !.pc = "fetching", !.fetches = @ + 1]
    ELSE [p EXCEPT !.attempt = @ + 1, !.pc = "done", !.out = Rejected(TimeoutMsg)]

----
(* Client state as one record, for the operators that compose a task *)

World == [tab |-> tab, loading |-> loading, preview |-> preview,
          creates |-> creates, loads |-> loads, pollers |-> pollers]

TabInit == [repoUrl |-> <<>>, isSubmitting |-> FALSE]
LoadingInit == [error |-> ""]
PreviewInit == [readmeId |-> 0, repoUrl |-> <<>>, content |-> "", isLoading |-> TRUE,
                error |-> "", isRegenerating |-> FALSE, showSuccess |-> FALSE]

StorageInit == [session_token |-> ""]

\* the panes before the editor and the preview are mounted:
\*   panes     editorRef.current and previewRef.current are set
\*   edTop, edExt   scrollTop of the editor and its scrollHeight - height
\*   pvTop, pvExt   scrollTop of the preview and its scrollHeight - clientHeight
\*   guard     isScrollingRef.current
\*   timers    release timers pending
\*   pvEvent   the scroll event the preview pane has yet to dispatch: "none",
\*             "program" (caused by a write of the Synchronizer alone) or "user"
\*   wrote     the value the last handler assigned, as <<numerator, denominator>>
\*   rounding  how this browser turns an assigned scrollTop into a pixel offset
SyncInit == [panes |-> FALSE, edTop |-> 0, edExt |-> 0, pvTop |-> 0, pvExt |-> 0,
             guard |-> FALSE, timers |-> 0, pvEvent |-> "none", wrote |-> <<0, 1>>,
             rounding |-> "floor"]

Entry(r, id, url) == [route |-> r, id |-> id, url |-> url]

RemoveAt(s, i) == SubSeq(s, 1, i - 1) \o SubSeq(s, i + 1, Len(s))

\* the requests in s lose their page
FlagAll(s) == [k \in 1..Len(s) |-> [s[k] EXCEPT !.mounted = FALSE]]

\* the calls in s started by page r lose their page
FlagOwned(s, r) ==
    [k \in 1..Len(s) |-> IF s[k].owner = r THEN [s[k] EXCEPT !.mounted = FALSE] ELSE s[k]]

\* the page of `route` unmounts: its state is gone, what it started goes on
Unmount(w, r) ==
    CASE r = "landing" ->
           [w EXCEPT !.tab = TabInit, !.creates = FlagOwned(w.creates, r)]
      [] r = "loading" ->
           [w EXCEPT !.loading = LoadingInit, !.pollers = FlagOwned(w.pollers, r)]
      [] r = "preview" ->
           [w EXCEPT !.preview = PreviewInit,
                     !.pollers = FlagOwned(FlagOwned(w.pollers, r), "regen"),
                     !.creates = FlagOwned(w.creates, r),
                     !.loads = FlagAll(w.loads)]
      [] OTHER -> w

\* what loadReadme puts into the page when the URL carries no id
NewReadmeText == "# New README"
NewProjectUrl == <<"New Project">>

\* LoadingPage polling effect, run for readmeId
LoadingEffect(w, readmeId) ==
    IF readmeId = 0
    THEN [w EXCEPT !.loading.error = NoIdMsg]
    ELSE [w EXCEPT !.pollers = Append(@, NewPoller(readmeId, PageAttempts, "loading"))]

\* PreviewPage mounts with the id of the URL and runs loadReadme up to its first await
\* (id 0 stands for no id in the URL: readmeId is then the text 'preview' and the
\* effect fills in an empty project without a fetch)
PreviewMount(w, id) ==
    IF id = 0
    THEN [w EXCEPT !.preview = [PreviewInit EXCEPT !.content = NewReadmeText,
                                                  !.repoUrl = NewProjectUrl,
                                                  !.isLoading = FALSE]]
    ELSE [w EXCEPT !.preview = [PreviewInit EXCEPT !.readmeId = id],
                   !.loads = Append(@, [job |-> id, mounted |-> TRUE])]

Mount(w, e) ==
    CASE e.route = "landing" -> [w EXCEPT !.tab = TabInit]
      [] e.route = "loading" -> LoadingEffect([w EXCEPT !.loading = LoadingInit], e.id)
      [] e.route = "preview" -> PreviewMount(w, e.id)
      [] OTHER -> w

\* the router renders entry `new` in place of `old`
Render(w, old, new) ==
    IF old.route = new.route
    THEN IF new.route = "loading" /\ new.id # old.id THEN LoadingEffect(w, new.id) ELSE w
    ELSE Mount(Unmount(w, old.route), new)

Push(h, i, e) ==
    LET cut == Append(SubSeq(h, 1, i), e)
    IN IF Len(cut) > MaxHist THEN Tail(cut) ELSE cut

\* navigate(to, {state}) called on world w
Navigate(w, e) == Render(w, hist[idx], e)

Apply(w) ==
    /\ tab' = w.tab
    /\ loading' = w.loading
    /\ preview' = w.preview
    /\ creates' = w.creates
    /\ loads' = w.loads
    /\ pollers' = w.pollers

PushHist(e) ==
    LET h == Push(hist, idx, e) IN hist' = h /\ idx' = Len(h)

\* what a task did: its kind, the job or status it is about, the reference it
\* carries, whether the page that started it is still mounted, where it navigated
\* and the toast it showed
Event(type, n, url, live, nav, toast) ==
    [type |-> type, n |-> n, url |-> url, live |-> live, nav |-> nav, toast |-> toast]

Fits(w) ==
    /\ Len(w.pollers) <= MaxPollers
    /\ Len(w.loads) <= MaxInFlight
    /\ Len(w.creates) <= MaxInFlight

route == hist[idx].route

HomeEntry == Entry("landing", 0, <<>>)

FreshWorld == [tab |-> TabInit, loading |-> LoadingInit, preview |-> PreviewInit,
               creates |-> <<>>, loads |-> <<>>, pollers |-> <<>>]

----
(* PublicRepoTab *)

\* onChange of the input, which is disabled while isSubmitting
TypeUrl(u) ==
    /\ route = "landing"
    /\ ~tab.isSubmitting
    /\ u # tab.repoUrl
    /\ tab' = [tab EXCEPT !.repoUrl = u]
    /\ ev' = Event("type", 0, <<>>, TRUE, "", "")
    /\ UNCHANGED <<hist, idx, loading, preview, creates, loads, pollers, jobs, storage, acks, sync>>

HandleGenerateUnchecked ==
    /\ route = "landing"
    /\ Len(creates) < MaxInFlight
    /\ tab' = [tab EXCEPT !.isSubmitting = TRUE]
    /\ creates' = Append(creates, [url |-> tab.repoUrl, owner |-> "landing", mounted |-> TRUE])
    /\ ev' = Event("create_sent", 0, tab.repoUrl, TRUE, "", "")
    /\ UNCHANGED <<hist, idx, loading, preview, loads, pollers, jobs, storage, acks, sync>>

\* handleGenerate up to its await: the button's onClick (never disabled), or Enter
\* in the input while not isSubmitting
HandleGenerate ==
    /\ route = "landing"
    /\ IF ~validateGitHubUrl(tab.repoUrl)
       THEN /\ ev' = Event("invalid_local", 0, tab.repoUrl, TRUE, "", InvalidUrlToast)
            /\ UNCHANGED <<tab, creates>>
       ELSE /\ Len(creates) < MaxInFlight
            /\ tab' = [tab EXCEPT !.isSubmitting = TRUE]
            /\ creates' = Append(creates, [url |-> tab.repoUrl, owner |-> "landing", mounted |-> TRUE])
            /\ ev' = Event("create_sent", 0, tab.repoUrl, TRUE, "", "")
    /\ UNCHANGED <<hist, idx, loading, preview, loads, pollers, jobs, storage, acks, sync>>

\* generateReadme resolves: the backend has created the job and answers with
\* its id and a session_token ("" when the response has none); handleGenerate
\* stores the token and navigates to /loading with the id
CreateSuccess(i, token) ==
    LET req == creates[i]
        id == Len(jobs) + 1
        e == Entry("loading", id, <<>>)
        w == Navigate([World EXCEPT !.creates = RemoveAt(creates, i)], e)
    IN /\ req.owner = "landing"
       /\ Len(jobs) < MaxJobs
       /\ Fits(w)
       /\ jobs' = Append(jobs, NewJob(req.url))
       /\ Apply(w)
       /\ PushHist(e)
       /\ storage' = IF token # "" THEN [storage EXCEPT !.session_token = token] ELSE storage
       /\ ev' = Event("created", 0, req.url, req.mounted, "loading", "")
       /\ UNCHANGED <<acks, sync>>

OnCreateErrorCleaned(req, status, detail) ==
    LET nav == IF status = 403 THEN Entry("connect", 0, CleanUrl(req.url)) ELSE HomeEntry
        message == IF detail # "" THEN detail ELSE DefaultDetail
        msg == CASE status = 0 -> ConnectToast
                 [] status = 403 -> ""
                 [] status = 400 -> InvalidUrlToast
                 [] status = 404 -> NotFoundToast
                 [] OTHER -> message
    IN [navigates |-> status = 403, nav |-> nav, toast |-> msg]

OnCreateErrorNoNotFound(req, status, detail) ==
    LET nav == IF status = 403 THEN Entry("connect", 0, req.url) ELSE HomeEntry
        message == IF detail # "" THEN detail ELSE DefaultDetail
        msg == CASE status = 0 -> ConnectToast
                 [] status = 403 -> ""
                 [] status = 400 -> InvalidUrlToast
                 [] OTHER -> message
    IN [navigates |-> status = 403, nav |-> nav, toast |-> msg]

\* the catch of handleGenerate for a request that carried req.url; status 0 is an
\* error without a response, detail is error.response.data?.detail ("" when absent)
OnCreateError(req, status, detail) ==
    LET nav == IF status = 403 THEN Entry("connect", 0, req.url) ELSE HomeEntry
        message == IF detail # "" THEN detail ELSE DefaultDetail
        msg == CASE status = 0 -> ConnectToast
                 [] status = 403 -> ""
                 [] status = 400 -> InvalidUrlToast
                 [] status = 404 -> NotFoundToast
                 [] OTHER -> message
    IN [navigates |-> status = 403, nav |-> nav, toast |-> msg]

CreateRejected(i, status, detail) ==
    LET req == creates[i]
        r == OnCreateError(req, status, detail)
        w0 == [World EXCEPT !.creates = RemoveAt(creates, i),
                            !.tab.isSubmitting = IF req.mounted THEN FALSE ELSE @]
        w == IF r.navigates THEN Navigate(w0, r.nav) ELSE w0
    IN /\ req.owner = "landing"
       /\ Fits(w)
       /\ Apply(w)
       /\ IF r.navigates THEN PushHist(r.nav) ELSE UNCHANGED <<hist, idx>>
       /\ ev' = Event("rejected", status, req.url, req.mounted,
                      IF r.navigates THEN r.nav.route ELSE "", r.toast)
       /\ UNCHANGED <<jobs, storage, acks, sync>>

----
(* Tasks of a call of pollReadmeStatus *)

\* the continuation of the caller once the call has settled as p
Settled(w, p) ==
    CASE p.owner = "loading" ->
           IF p.out.kind = "resolved" THEN w
           ELSE IF p.mounted
                THEN [w EXCEPT !.loading.error =
                          IF p.out.msg # "" THEN p.out.msg ELSE PollFailedMsg]
                ELSE w
      [] p.owner = "preview" ->
           IF ~p.mounted THEN w
           ELSE IF p.out.kind = "resolved"
                THEN [w EXCEPT !.preview.content = p.out.data.readme_content,
                               !.preview.repoUrl = p.out.data.repo_url,
                               !.preview.showSuccess = TRUE,
                               !.preview.isLoading = FALSE]
                ELSE [w EXCEPT !.preview.error = LoadFailedMsg,
                               !.preview.isLoading = FALSE]
      [] p.owner = "regen" ->
           IF ~p.mounted THEN w
           ELSE IF p.out.kind = "resolved"
                THEN IF p.out.data.readme_content # ""
                     THEN \* setReadmeId(newReadmeId) runs the loadReadme effect
                          \* again (its dependency is readmeId), up to its await
                          [w EXCEPT !.preview.content = p.out.data.readme_content,
                                    !.preview.showSuccess = TRUE,
                                    !.preview.readmeId = p.job,
                                    !.preview.isRegenerating = FALSE,
                                    !.preview.isLoading = TRUE,
                                    !.loads = Append(@, [job |-> p.job, mounted |-> TRUE])]
                     ELSE [w EXCEPT !.preview.isRegenerating = FALSE]
                ELSE [w EXCEPT !.preview.error =
                                   IF p.out.msg # "" THEN p.out.msg ELSE RegenFailedMsg,
                               !.preview.isRegenerating = FALSE]
      [] OTHER -> w

\* LoadingPage.startPolling after the await: navigate(`/preview/${readmeId}`)
NavigatesOnSettle(p) == p.owner = "loading" /\ p.out.kind = "resolved"

\* poller k moves to p
PollStep(k, p) ==
    IF p.pc # "done"
    THEN /\ pollers' = [pollers EXCEPT ![k] = p]
         /\ ev' = Event(IF p.pc = "fetching" THEN "poll_fetch" ELSE "poll_wait",
                        0, <<>>, p.mounted, "", "")
         /\ UNCHANGED <<hist, idx, tab, loading, preview, creates, loads, jobs, storage, acks, sync>>
    ELSE IF p.owner = "caller"
    THEN /\ pollers' = [pollers EXCEPT ![k] = p]
         /\ ev' = Event("poll_" \o p.out.kind, 0, <<>>, p.mounted, "", "")
         /\ UNCHANGED <<hist, idx, tab, loading, preview, creates, loads, jobs, storage, acks, sync>>
    ELSE LET e == Entry("preview", p.job, <<>>)
             w0 == Settled([World EXCEPT !.pollers = RemoveAt(pollers, k)], p)
             w == IF NavigatesOnSettle(p) THEN Navigate(w0, e) ELSE w0
         IN /\ Fits(w)
            /\ Apply(w)
            /\ IF NavigatesOnSettle(p) THEN PushHist(e) ELSE UNCHANGED <<hist, idx>>
            /\ ev' = Event("poll_" \o p.out.kind, 0, <<>>, p.mounted,
                           IF NavigatesOnSettle(p) THEN "preview" ELSE "", "")
            /\ UNCHANGED <<jobs, storage, acks, sync>>

PollResponse(k) ==
    /\ pollers[k].pc = "fetching"
    /\ PollStep(k, PollerOnData(pollers[k], jobs[pollers[k].job]))

PollFetchError(k) ==
    /\ pollers[k].pc = "fetching"
    /\ PollStep(k, PollerOnError(pollers[k]))

PollTimer(k) ==
    /\ pollers[k].pc = "waiting"
    /\ PollStep(k, PollerOnTimer(pollers[k]))

----
(* PreviewPage.loadReadme *)

OnLoadedPlaceholder(w, l, data) ==
    CASE data.status = "completed" ->
           IF l.mounted
           THEN [w EXCEPT !.preview.content =
                              IF data.readme_content # "" THEN data.readme_content
                              ELSE "# New README",
                          !.preview.repoUrl = data.repo_url,
                          !.preview.showSuccess = TRUE,
                          !.preview.isLoading = FALSE]
           ELSE w
      [] data.status \in {"pending", "processing"} ->
           [w EXCEPT !.pollers =
                Append(@, [NewPoller(l.job, PageAttempts, "preview")
                              EXCEPT !.mounted = l.mounted])]
      [] OTHER ->
           IF l.mounted THEN [w EXCEPT !.preview.isLoading = FALSE] ELSE w

\* the first getReadme of loadReadme answers with `data` for the load l
OnLoaded(w, l, data) ==
    CASE data.status = "completed" ->
           IF l.mounted
           THEN [w EXCEPT !.preview.content = data.readme_content,
                          !.preview.repoUrl = data.repo_url,
                          !.preview.showSuccess = TRUE,
                          !.preview.isLoading = FALSE]
           ELSE w
      [] data.status \in {"pending", "processing"} ->
           [w EXCEPT !.pollers =
                Append(@, [NewPoller(l.job, PageAttempts, "preview")
                              EXCEPT !.mounted = l.mounted])]
      [] OTHER ->
           IF l.mounted THEN [w EXCEPT !.preview.isLoading = FALSE] ELSE w

LoadResponse(i) ==
    LET l == loads[i]
        data == jobs[l.job]
        w == OnLoaded([World EXCEPT !.loads = RemoveAt(loads, i)], l, data)
    IN /\ Fits(w)
       /\ Apply(w)
       /\ ev' = Event("loaded", 0, <<>>, l.mounted, "", "")
       /\ UNCHANGED <<hist, idx, jobs, storage, acks, sync>>

\* the first getReadme of loadReadme rejects: the catch, then the finally
LoadError(i) ==
    LET l == loads[i]
        w0 == [World EXCEPT !.loads = RemoveAt(loads, i)]
        w == IF l.mounted
             THEN [w0 EXCEPT !.preview.error = LoadFailedMsg, !.preview.isLoading = FALSE]
             ELSE w0
    IN /\ Apply(w)
       /\ ev' = Event("load_error", 0, <<>>, l.mounted, "", "")
       /\ UNCHANGED <<hist, idx, jobs, storage, acks, sync>>

----
(* What the current page renders *)

\* PreviewPage returns its error page in place of the editor
ErrorPage == preview.error # "" /\ preview.content = ""

\* the error text on screen: LoadingPage renders {error}, the error page of
\* PreviewPage renders a fixed text, the editor view renders no error
ShownError ==
    CASE route = "loading" -> loading.error
      [] route = "preview" -> IF ErrorPage THEN NotFoundPageMsg ELSE ""
      [] OTHER -> ""

\* a control that leads back to the landing page: 'Try Again' of LoadingPage,
\* 'Go Back Home' of the error page, 'Change Repository' of the editor view
RestartOffered ==
    CASE route = "loading" -> loading.error # ""
      [] route = "preview" -> TRUE
      [] OTHER -> FALSE

----
(* PreviewPage: the editor, Regenerate and Download *)

\* what the user can turn the buffer into
EditTexts == {"", "# widgets, edited"}

\* the editor view is on screen
EditorView == route = "preview" /\ ~ErrorPage

EditAutosave(c) ==
    /\ EditorView
    /\ ~(preview.isLoading \/ preview.isRegenerating)
    /\ c # preview.content
    /\ preview' = [preview EXCEPT !.content = c]
    /\ jobs' = IF preview.readmeId \in 1..Len(jobs)
               THEN [jobs EXCEPT ![preview.readmeId].readme_content = c]
               ELSE jobs
    /\ ev' = Event("edit", 0, <<>>, TRUE, "", "")
    /\ UNCHANGED <<hist, idx, tab, loading, creates, loads, pollers, storage, acks, sync>>

\* onChange of the editor, which is read-only while isLoading or isRegenerating:
\* setContent(value || '')
Edit(c) ==
    /\ EditorView
    /\ ~(preview.isLoading \/ preview.isRegenerating)
    /\ c # preview.content
    /\ preview' = [preview EXCEPT !.content = c]
    /\ ev' = Event("edit", 0, <<>>, TRUE, "", "")
    /\ UNCHANGED <<hist, idx, tab, loading, creates, loads, pollers, jobs, storage, acks, sync>>

HandleRegeneratePatching ==
    /\ EditorView
    /\ ~preview.isRegenerating
    /\ IF preview.repoUrl = <<>>
       THEN /\ preview' = [preview EXCEPT !.error = NoRepoMsg]
            /\ ev' = Event("regen_no_url", 0, <<>>, TRUE, "", "")
            /\ UNCHANGED <<creates, acks>>
       ELSE /\ Len(creates) < MaxInFlight
            /\ Len(acks) < MaxAcks
            /\ preview' = [preview EXCEPT !.showSuccess = FALSE, !.isRegenerating = TRUE]
            /\ creates' = Append(creates, [url |-> preview.repoUrl, owner |-> "preview",
                                            mounted |-> TRUE])
            /\ acks' = Append(acks, preview.readmeId)
            /\ ev' = Event("regen_sent", preview.readmeId, preview.repoUrl, TRUE, "", "")
    /\ UNCHANGED <<hist, idx, tab, loading, loads, pollers, jobs, storage, sync>>

HandleRegenerateUnguarded ==
    /\ EditorView
    /\ IF preview.repoUrl = <<>>
       THEN /\ preview' = [preview EXCEPT !.error = NoRepoMsg]
            /\ ev' = Event("regen_no_url", 0, <<>>, TRUE, "", "")
            /\ UNCHANGED creates
       ELSE /\ Len(creates) < MaxInFlight
            /\ preview' = [preview EXCEPT !.showSuccess = FALSE, !.isRegenerating = TRUE]
            /\ creates' = Append(creates, [url |-> preview.repoUrl, owner |-> "preview",
                                            mounted |-> TRUE])
            /\ ev' = Event("regen_sent", preview.readmeId, preview.repoUrl, TRUE, "", "")
    /\ UNCHANGED <<hist, idx, tab, loading, loads, pollers, jobs, storage, acks, sync>>

\* handleRegenerate up to its first await; the button is disabled while
\* isRegenerating
HandleRegenerate ==
    /\ EditorView
    /\ ~preview.isRegenerating
    /\ IF preview.repoUrl = <<>>
       THEN /\ preview' = [preview EXCEPT !.error = NoRepoMsg]
            /\ ev' = Event("regen_no_url", 0, <<>>, TRUE, "", "")
            /\ UNCHANGED creates
       ELSE /\ Len(creates) < MaxInFlight
            /\ preview' = [preview EXCEPT !.showSuccess = FALSE, !.isRegenerating = TRUE]
            /\ creates' = Append(creates, [url |-> preview.repoUrl, owner |-> "preview",
                                            mounted |-> TRUE])
            /\ ev' = Event("regen_sent", preview.readmeId, preview.repoUrl, TRUE, "", "")
    /\ UNCHANGED <<hist, idx, tab, loading, loads, pollers, jobs, storage, acks, sync>>

\* generateReadme of handleRegenerate resolves with the id of the new job:
\* pollReadmeStatus(newReadmeId) starts
RegenCreated(i) ==
    LET req == creates[i]
        id == Len(jobs) + 1
        w == [World EXCEPT !.creates = RemoveAt(creates, i),
                           !.pollers = Append(@, [NewPoller(id, PageAttempts, "regen")
                                                     EXCEPT !.mounted = req.mounted])]
    IN /\ req.owner = "preview"
       /\ Len(jobs) < MaxJobs
       /\ Fits(w)
       /\ jobs' = Append(jobs, NewJob(req.url))
       /\ Apply(w)
       /\ ev' = Event("regen_created", id, req.url, req.mounted, "", "")
       /\ UNCHANGED <<hist, idx, storage, acks, sync>>

\* err.message of a rejected request
AxiosMsg(status) == IF status = 0 THEN NetworkMsg ELSE StatusCodeMsg

\* generateReadme of handleRegenerate rejects: the catch, then the finally
RegenRejected(i, status) ==
    LET req == creates[i]
        w0 == [World EXCEPT !.creates = RemoveAt(creates, i)]
        w == IF req.mounted
             THEN [w0 EXCEPT !.preview.error = AxiosMsg(status),
                             !.preview.isRegenerating = FALSE]
             ELSE w0
    IN /\ req.owner = "preview"
       /\ Apply(w)
       /\ ev' = Event("regen_rejected", status, req.url, req.mounted, "", "")
       /\ UNCHANGED <<hist, idx, jobs, storage, acks, sync>>

HandleDownloadUrlId ==
    /\ EditorView
    /\ Len(acks) < MaxAcks
    /\ acks' = IF hist[idx].id # 0 THEN Append(acks, hist[idx].id) ELSE acks
    /\ ev' = Event("download", preview.readmeId, <<>>, TRUE, "", DownloadToast)
    /\ UNCHANGED <<hist, idx, tab, loading, preview, creates, loads, pollers, jobs,
                   storage, sync>>

\* handleDownload up to its await: the buffer is saved as a file, the success
\* toast is shown, updateReadmeDownloaded(readmeId) is sent when there is an id
HandleDownload ==
    /\ EditorView
    /\ Len(acks) < MaxAcks
    /\ acks' = IF preview.readmeId # 0 THEN Append(acks, preview.readmeId) ELSE acks
    /\ ev' = Event("download", preview.readmeId, <<>>, TRUE, "", DownloadToast)
    /\ UNCHANGED <<hist, idx, tab, loading, preview, creates, loads, pollers, jobs,
                   storage, sync>>

\* the PATCH of updateReadmeDownloaded answers, or fails and is caught inside
\* updateReadmeDownloaded (which then returns null); handleDownload only logs
AckSettled(i, type) ==
    /\ acks' = RemoveAt(acks, i)
    /\ ev' = Event(type, acks[i], <<>>, TRUE, "", "")
    /\ UNCHANGED <<hist, idx, tab, loading, preview, creates, loads, pollers, jobs,
                   storage, sync>>

AckResponse(i) == AckSettled(i, "ack")

AckErrorSurfaced(i) ==
    /\ acks' = RemoveAt(acks, i)
    /\ ev' = Event("ack_failed", acks[i], <<>>, TRUE, "", DownloadFailedToast)
    /\ UNCHANGED <<hist, idx, tab, loading, preview, creates, loads, pollers, jobs,
                   storage, sync>>

AckError(i) == AckSettled(i, "ack_failed")

----
(* Editor/Preview Synchronizer: handleEditorScroll, handlePreviewScroll *)

Max(a, b) == IF a >= b THEN a ELSE b
Min(a, b) == IF a <= b THEN a ELSE b

\* how a pane turns an assigned real offset num/den into its scrollTop: Monaco
\* truncates, a DOM element truncates or rounds to the nearest pixel
Roundings == {"floor", "nearest"}

Rounded(num, den, r) ==
    IF r = "floor" THEN num \div den ELSE (2 * num + den) \div (2 * den)

\* scrollPercentage * otherScrollHeight as <<numerator, denominator>>, where
\*   scrollHeight = Math.max(1, ext)
\*   scrollPercentage = Math.min(1, Math.max(0, scrollTop / scrollHeight))
\*   otherScrollHeight = Math.max(1, otherExt)
Target(top, ext, otherExt) ==
    LET scrollHeight == Max(1, ext)
        pctNum == Min(scrollHeight, Max(0, top))
    IN <<pctNum * Max(1, otherExt), scrollHeight>>

\* a pane keeps its scrollTop within [0, ext]
Clamp(x, ext) == Min(ext, Max(0, x))

handleEditorScrollNoFinally(s, throws, r) ==
    IF s.guard \/ ~s.panes THEN s
    ELSE LET t == Target(s.edTop, s.edExt, s.pvExt)
             top == Clamp(Rounded(t[1], t[2], r), s.pvExt)
             s1 == [s EXCEPT !.guard = TRUE]
         IN IF throws THEN s1
            ELSE [s1 EXCEPT !.pvTop = top,
                            !.wrote = t,
                            !.pvEvent = IF top # s.pvTop /\ @ = "none"
                                        THEN "program" ELSE @,
                            !.timers = @ + 1]

handleEditorScrollRelative(s, throws, r) ==
    IF s.guard \/ ~s.panes THEN s
    ELSE LET t == Target(s.edTop, s.edExt, s.pvExt)
             top == Clamp(s.pvTop + Rounded(t[1], t[2], r), s.pvExt)
             s1 == [s EXCEPT !.guard = TRUE]
             s2 == IF throws THEN s1
                   ELSE [s1 EXCEPT !.pvTop = top,
                                   !.wrote = t,
                                   !.pvEvent = IF top # s.pvTop /\ @ = "none"
                                               THEN "program" ELSE @]
         IN [s2 EXCEPT !.timers = @ + 1]

\* handleEditorScroll(e), called by Monaco's onDidScrollChange; `throws` is an
\* error inside the try, r the rounding of the preview element
handleEditorScroll(s, throws, r) ==
    IF s.guard \/ ~s.panes THEN s
    ELSE LET t == Target(s.edTop, s.edExt, s.pvExt)
             top == Clamp(Rounded(t[1], t[2], r), s.pvExt)
             s1 == [s EXCEPT !.guard = TRUE]
             s2 == IF throws THEN s1
                   ELSE [s1 EXCEPT !.pvTop = top,
                                   !.wrote = t,
                                   !.pvEvent = IF top # s.pvTop /\ @ = "none"
                                               THEN "program" ELSE @]
         IN [s2 EXCEPT !.timers = @ + 1]

\* editor.setScrollTop(num/den): Monaco truncates and clamps, and when the
\* position changes it calls the onDidScrollChange listener before it returns
SetEditorScrollTop(s, num, den) ==
    LET top == Clamp(Rounded(num, den, "floor"), s.edExt)
        s1 == [s EXCEPT !.edTop = top]
    IN IF top # s.edTop THEN handleEditorScroll(s1, FALSE, "floor") ELSE s1

handlePreviewScrollUnguarded(s, throws) ==
    IF ~s.panes THEN s
    ELSE LET t == Target(s.pvTop, s.pvExt, s.edExt)
             s1 == [s EXCEPT !.guard = TRUE]
             s2 == IF throws THEN s1
                   ELSE [SetEditorScrollTop(s1, t[1], t[2]) EXCEPT !.wrote = t]
         IN [s2 EXCEPT !.timers = @ + 1]

\* handlePreviewScroll(), the 'scroll' listener of the preview element
handlePreviewScroll(s, throws) ==
    IF s.guard \/ ~s.panes THEN s
    ELSE LET t == Target(s.pvTop, s.pvExt, s.edExt)
             s1 == [s EXCEPT !.guard = TRUE]
             s2 == IF throws THEN s1
                   ELSE [SetEditorScrollTop(s1, t[1], t[2]) EXCEPT !.wrote = t]
         IN [s2 EXCEPT !.timers = @ + 1]

\* what a handler did: 0 it returned at once, 1 it assigned the other pane's
\* scrollTop, 2 it caught an error
Did(s, throws) == IF s.guard \/ ~s.panes THEN 0 ELSE IF throws THEN 2 ELSE 1

SyncStep(s, type, n) ==
    /\ sync' = s
    /\ ev' = Event(type, n, <<>>, TRUE, "", "")
    /\ UNCHANGED <<hist, idx, tab, loading, preview, creates, loads, pollers, jobs,
                   storage, acks>>

\* the user scrolls the editor to `top`: Monaco calls the listener in the same task
EditorScroll(top, throws, r) ==
    /\ route = "preview"
    /\ top \in 0..sync.edExt
    /\ top # sync.edTop
    /\ r = sync.rounding
    /\ LET s == [sync EXCEPT !.edTop = top]
       IN SyncStep(handleEditorScroll(s, throws, r), "editor_scroll", Did(s, throws))

\* Monaco calls the listener again with the scrollTop it already reported (its
\* scroll event also reports changes of scrollHeight or scrollLeft)
EditorScrollAgain(throws) ==
    /\ route = "preview"
    /\ sync.panes
    /\ SyncStep(handleEditorScroll(sync, throws, sync.rounding), "editor_scroll_again",
                Did(sync, throws))

\* the user scrolls the preview to `top`: the element dispatches its scroll event
\* with the next frame
PreviewUserScroll(top) ==
    /\ route = "preview"
    /\ top \in 0..sync.pvExt
    /\ top # sync.pvTop
    /\ SyncStep([sync EXCEPT !.pvTop = top, !.pvEvent = "user"], "preview_moved", 0)

\* the preview element dispatches its pending scroll event
PreviewScrollEvent(throws) ==
    /\ route = "preview"
    /\ sync.pvEvent # "none"
    /\ LET s == [sync EXCEPT !.pvEvent = "none"]
       IN SyncStep(handlePreviewScroll(s, throws),
                   "preview_scroll_" \o sync.pvEvent, Did(s, throws))

\* a timer of a finally block fires: isScrollingRef.current = false
ReleaseTimer ==
    /\ sync.timers > 0
    /\ SyncStep([sync EXCEPT !.guard = FALSE, !.timers = @ - 1], "release", 0)

----
(* The browser: session history and page loads *)

HistoryGo(i) ==
    LET w == Render(World, hist[idx], hist[i])
    IN /\ i \in 1..Len(hist)
       /\ Fits(w)
       /\ Apply(w)
       /\ idx' = i
       /\ ev' = Event("history", 0, <<>>, TRUE, hist[i].route, "")
       /\ UNCHANGED <<hist, jobs, storage, acks, sync>>

HistoryBack == HistoryGo(idx - 1)

HistoryForward == HistoryGo(idx + 1)

\* <a href="/"> of the Navbar, window.location.href = '/': the document is
\* loaded again and nothing of the old one runs on
PageReload ==
    /\ route \in {"landing", "loading", "preview"}
    /\ Apply(FreshWorld)
    /\ hist' = <<HomeEntry>>
    /\ idx' = 1
    /\ ev' = Event("reload", 0, <<>>, TRUE, "landing", "")
    /\ UNCHANGED <<jobs, storage, acks, sync>>

\* the document is loaded at /preview/<id>
OpenPreview(id) ==
    /\ route = "landing"
    /\ id \in 1..Len(jobs)
    /\ Apply(PreviewMount(FreshWorld, id))
    /\ hist' = <<Entry("preview", id, <<>>)>>
    /\ idx' = 1
    /\ ev' = Event("open", 0, <<>>, TRUE, "preview", "")
    /\ UNCHANGED <<jobs, storage, acks, sync>>

----
(* The backend, a job's life: pending -> processing -> completed | failed *)

BackendStep(j, rec) ==
    /\ jobs' = [jobs EXCEPT ![j] = rec]
    /\ ev' = Event("backend", 0, <<>>, TRUE, "", "")
    /\ UNCHANGED <<hist, idx, tab, loading, preview, creates, loads, pollers, storage, acks, sync>>

BackendStart(j) ==
    /\ jobs[j].status = "pending"
    /\ BackendStep(j, [jobs[j] EXCEPT !.status = "processing"])

BackendComplete(j, c) ==
    /\ jobs[j].status = "processing"
    /\ BackendStep(j, [jobs[j] EXCEPT !.status = "completed", !.readme_content = c])

BackendFail(j, d) ==
    /\ jobs[j].status = "processing"
    /\ BackendStep(j, [jobs[j] EXCEPT !.status = "failed", !.readme_content = d])

JobStates(url) ==
    {NewJob(url), [NewJob(url) EXCEPT !.status = "processing"]}
    \cup {[NewJob(url) EXCEPT !.status = "completed", !.readme_content = c] : c \in Contents}
    \cup {[NewJob(url) EXCEPT !.status = "failed", !.readme_content = d] : d \in Details}

----
(* The application after the document is loaded at / *)

Init ==
    /\ hist = <<HomeEntry>>
    /\ idx = 1
    /\ tab = TabInit
    /\ loading = LoadingInit
    /\ preview = PreviewInit
    /\ creates = <<>>
    /\ loads = <<>>
    /\ pollers = <<>>
    /\ jobs = <<>>
    /\ storage = StorageInit
    /\ acks = <<>>
    /\ sync = SyncInit
    /\ ev = Event("init", 0, <<>>, TRUE, "", "")

Backend ==
    \E j \in 1..Len(jobs) :
        \/ BackendStart(j)
        \/ \E c \in Contents : BackendComplete(j, c)
        \/ \E d \in Details : BackendFail(j, d)

Poll ==
    \E k \in 1..Len(pollers) :
        \/ PollResponse(k)
        \/ PollFetchError(k)
        \/ PollTimer(k)


----
(* The Issuer: submissions from the landing page and what each leads to,    *)
(* up to the first status fetch of the polling view                        *)

IssuerNext ==
    \/ \E u \in Urls : TypeUrl(u)
    \/ HandleGenerate
    \/ \E i \in 1..Len(creates), token \in Tokens : CreateSuccess(i, token)
    \/ \E i \in 1..Len(creates), status \in Statuses, detail \in ErrorDetails :
          CreateRejected(i, status, detail)
    \/ HistoryBack
    \/ PageReload

IssuerSpec == Init /\ [][IssuerNext]_vars

----
(* The polling view: LoadingPage just entered with the id of a new job *)

ViewInit ==
    /\ hist = <<HomeEntry, Entry("loading", 1, <<>>)>>
    /\ idx = 2
    /\ tab = TabInit
    /\ loading = LoadingInit
    /\ preview = PreviewInit
    /\ creates = <<>>
    /\ loads = <<>>
    /\ pollers = <<NewPoller(1, PageAttempts, "loading")>>
    /\ jobs = <<NewJob(UrlOk)>>
    /\ storage = StorageInit
    /\ acks = <<>>
    /\ sync = SyncInit
    /\ ev = Event("created", 0, UrlOk, TRUE, "loading", "")

ViewNext ==
    \/ Poll
    \/ \E i \in 1..Len(loads) : LoadResponse(i)
    \/ \E i \in 1..Len(loads) : LoadError(i)
    \/ HistoryBack
    \/ HistoryForward
    \/ PageReload
    \/ \E id \in 1..MaxJobs : OpenPreview(id)
    \/ Backend

ViewSpec == ViewInit /\ [][ViewNext]_vars

----
(* The editor: the document loaded at /preview/1, for a job in any state, *)
(* or at /preview without an id                                         *)

EditorInit ==
    /\ \E id \in 0..1 :
          /\ hist = <<Entry("preview", id, <<>>)>>
          /\ preview = PreviewMount(FreshWorld, id).preview
          /\ loads = PreviewMount(FreshWorld, id).loads
          /\ jobs \in IF id = 0 THEN {<<>>} ELSE {<<r>> : r \in JobStates(UrlOk)}
    /\ idx = 1
    /\ tab = TabInit
    /\ loading = LoadingInit
    /\ creates = <<>>
    /\ pollers = <<>>
    /\ storage = StorageInit
    /\ acks = <<>>
    /\ sync = SyncInit
    /\ ev = Event("open", 0, <<>>, TRUE, "preview", "")

EditorNext ==
    \/ \E i \in 1..Len(loads) : LoadResponse(i)
    \/ \E i \in 1..Len(loads) : LoadError(i)
    \/ Poll
    \/ \E c \in EditTexts : Edit(c)
    \/ HandleRegenerate
    \/ \E i \in 1..Len(creates) : RegenCreated(i)
    \/ \E i \in 1..Len(creates), status \in Statuses : RegenRejected(i, status)
    \/ HandleDownload
    \/ \E i \in 1..Len(acks) : AckResponse(i)
    \/ \E i \in 1..Len(acks) : AckError(i)
    \/ PageReload
    \/ Backend

EditorSpec == EditorInit /\ [][EditorNext]_vars

----
(* The Synchronizer: the editor view with both panes mounted, of any extents *)

SyncSpecInit ==
    /\ hist = <<Entry("preview", 1, <<>>)>>
    /\ idx = 1
    /\ tab = TabInit
    /\ loading = LoadingInit
    /\ preview = [PreviewInit EXCEPT !.readmeId = 1, !.repoUrl = UrlOk,
                                     !.content = "# widgets", !.isLoading = FALSE,
                                     !.showSuccess = TRUE]
    /\ creates = <<>>
    /\ loads = <<>>
    /\ pollers = <<>>
    /\ jobs = <<[NewJob(UrlOk) EXCEPT !.status = "completed", !.readme_content = "# widgets"]>>
    /\ storage = StorageInit
    /\ acks = <<>>
    /\ \E e \in 0..MaxExtent, p \in 0..MaxExtent :
          \E r \in Roundings :
              sync = [SyncInit EXCEPT !.panes = TRUE, !.edExt = e, !.pvExt = p,
                                      !.rounding = r]
    /\ ev = Event("loaded", 0, <<>>, TRUE, "", "")

SyncNext ==
    \/ \E top \in 0..MaxExtent, throws \in BOOLEAN, r \in Roundings :
          EditorScroll(top, throws, r)
    \/ \E throws \in BOOLEAN : EditorScrollAgain(throws)
    \/ \E top \in 0..MaxExtent : PreviewUserScroll(top)
    \/ \E throws \in BOOLEAN : PreviewScrollEvent(throws)
    \/ ReleaseTimer

SyncSpec == SyncSpecInit /\ [][SyncNext]_vars

\* a timer set with setTimeout fires
SyncLiveSpec == SyncSpec /\ WF_vars(ReleaseTimer)

----
(* One call pollReadmeStatus(readmeId, N, D) against one job *)

PollInit ==
    /\ hist = <<HomeEntry>>
    /\ idx = 1
    /\ tab = TabInit
    /\ loading = LoadingInit
    /\ preview = PreviewInit
    /\ creates = <<>>
    /\ loads = <<>>
    /\ pollers = <<>>
    /\ jobs \in {<<r>> : r \in JobStates(UrlOk)}
    /\ storage = StorageInit
    /\ acks = <<>>
    /\ sync = SyncInit
    /\ ev = Event("init", 0, <<>>, TRUE, "", "")

PollCall(n) ==
    /\ pollers = <<>>
    /\ pollers' = <<NewPoller(1, n, "caller")>>
    /\ ev' = Event("poll_fetch", 0, <<>>, TRUE, "", "")
    /\ UNCHANGED <<hist, idx, tab, loading, preview, creates, loads, jobs, storage, acks, sync>>

PollNext ==
    \/ \E n \in 1..MaxN : PollCall(n)
    \/ Poll
    \/ Backend

PollSpec == PollInit /\ [][PollNext]_vars

----
(* Properties of the Status Poller, under PollSpec *)

NonTerminalSeen(p) == p.seen \in {"pending", "processing"}

\* C1: for every ceiling N >= 1, a call that only ever fetches non-terminal
\* statuses makes exactly N fetches, never more, and then fails with the
\* Timeout error.
C1_TimeoutAfterNFetches ==
    \A k \in 1..Len(pollers) :
        LET p == pollers[k] IN
        /\ p.fetches <= p.maxAttempts
        /\ (p.pc = "done" /\ NonTerminalSeen(p)) =>
              /\ p.fetches = p.maxAttempts
              /\ p.out = Rejected(TimeoutMsg)
        /\ (p.pc # "done" /\ p.seen # "none") => NonTerminalSeen(p)

C1_Witness ==
    \E k \in 1..Len(pollers) :
        /\ pollers[k].pc = "done"
        /\ NonTerminalSeen(pollers[k])
        /\ pollers[k].maxAttempts = MaxN
        /\ pollers[k].fetches = MaxN
        /\ pollers[k].out = Rejected(TimeoutMsg)

\* C2: a call that times out has waited exactly N-1 delays: no delay follows
\* the final attempt.
C2_NoDelayAfterFinalAttempt ==
    \A k \in 1..Len(pollers) :
        LET p == pollers[k] IN
        (p.pc = "done" /\ NonTerminalSeen(p)) => p.delays = p.maxAttempts - 1

\* C3: once a fetch returns `completed` or `failed` the call has settled, on
\* that fetch: it is the k-th fetch, k <= N, and exactly k-1 delays came
\* before it.
C3_SettlesOnFirstTerminal ==
    \A k \in 1..Len(pollers) :
        LET p == pollers[k] IN
        IsTerminal(p.seen) =>
            /\ p.pc = "done"
            /\ p.out.kind = IF p.seen = "completed" THEN "resolved" ELSE "rejected"
            /\ p.fetches <= p.maxAttempts
            /\ p.delays = p.fetches - 1
            /\ p.attempt = p.fetches - 1

C3_Witness ==
    \E k \in 1..Len(pollers) :
        /\ pollers[k].seen = "completed"
        /\ pollers[k].out.kind = "resolved"
        /\ pollers[k].fetches = 2
        /\ pollers[k].delays = 1

\* C4: a call whose fetch returned `completed` resolves with the record of the
\* job, every field as the backend holds it.
C4_ResolvesWithTheRecord ==
    \A k \in 1..Len(pollers) :
        LET p == pollers[k] IN
        p.seen = "completed" => p.out = Resolved(jobs[p.job])

C4_Witness ==
    \E k \in 1..Len(pollers) :
        /\ pollers[k].seen = "completed"
        /\ pollers[k].out.data.readme_content = "# widgets"
        /\ pollers[k].out.data.repo_url = UrlOk

\* C5: a call whose fetch returned `failed` fails with an error that carries
\* the detail of the job and is not the Timeout error.
C5_FailedIsNotTimeout ==
    \A k \in 1..Len(pollers) :
        LET p == pollers[k]
            detail == jobs[p.job].readme_content
        IN p.seen = "failed" =>
              /\ p.out.kind = "rejected"
              /\ detail # "" => p.out.msg = detail
              /\ p.out # Rejected(TimeoutMsg)

----
(* Properties of the polling view, under ViewSpec *)

InFlight(j) ==
    Cardinality({k \in 1..Len(pollers) : pollers[k].job = j /\ pollers[k].pc = "fetching"})
    + Cardinality({i \in 1..Len(loads) : loads[i].job = j})

\* C6: at most one status fetch for a job is in flight at any time.
C6_OneFetchInFlight == \A j \in 1..Len(jobs) : InFlight(j) <= 1

\* C7: no status fetch is started by a call whose polling view has been left.
C7_NoFetchAfterLeaving == ~(ev.type = "poll_fetch" /\ ~ev.live)

\* C8: a call that settles after its polling view has been left navigates
\* nowhere.
C8_StaleResultDiscarded ==
    (ev.type \in {"poll_resolved", "poll_rejected"} /\ ~ev.live) => ev.nav = ""

----
(* Properties of the Issuer, under IssuerSpec *)

\* C9: a reference that fails validation, locally or with status 400, gets
\* the correction prompt and nothing else: no job, no navigation, no status
\* fetch; and handleGenerate sends no creation request for a reference that
\* is locally invalid.
C9_ValidationFailure ==
    [][ LET local == ev'.type = "invalid_local"
            remote == ev'.type = "rejected" /\ ev'.n = 400
        IN /\ (local \/ remote) =>
                 /\ ev'.toast = InvalidUrlToast
                 /\ ev'.nav = ""
                 /\ jobs' = jobs
                 /\ hist' = hist /\ idx' = idx
                 /\ pollers' = pollers /\ loads' = loads
           /\ local => creates' = creates
           /\ (ev'.type \in {"invalid_local", "create_sent"}
                  /\ ~validateGitHubUrl(tab.repoUrl)) =>
                 (local /\ creates' = creates)
      ]_vars

C9_Witness ==
    /\ ev.type = "rejected"
    /\ ev.n = 400
    /\ ev.toast = InvalidUrlToast
    /\ route = "landing"
    /\ jobs = <<>>
    /\ pollers = <<>>

\* C10: a creation request rejected with 403 lands on /connect-github, and the
\* reference handed over is the one the request was submitted with.
C10_AccessDeniedKeepsReference ==
    /\ (ev.type = "rejected" /\ ev.n = 403) =>
          /\ route = "connect"
          /\ ev.nav = "connect"
          /\ hist[idx].url = ev.url
    /\ \A i \in 1..Len(creates) : creates[i].url \in Urls
    /\ (ev.type = "create_sent") => creates[Len(creates)].url = ev.url

C10_Witness ==
    /\ ev.type = "rejected"
    /\ ev.n = 403
    /\ route = "connect"
    /\ hist[idx].url = <<" ">> \o UrlOk \o <<".git", "/", " ">>

C12_OnlyTheCreationCall ==
    [][ /\ ev'.type = "create_sent" => Len(creates') = Len(creates) + 1
        /\ ev'.type \in {"invalid_local", "create_sent", "rejected"} =>
              /\ pollers' = pollers
              /\ loads' = loads
        /\ storage' = storage
      ]_vars

----
(* Properties of the Result Presenter's first load, under ViewSpec *)

\* C13: once loadReadme has seeded the buffer (from its first fetch or from
\* the record its poll resolved with), the buffer is the readme_content of the
\* completed record of the page's job, character for character.
C13_BufferIsResultContent ==
    (route = "preview" /\ preview.showSuccess) =>
        /\ preview.readmeId \in 1..Len(jobs)
        /\ jobs[preview.readmeId].status = "completed"
        /\ preview.content = jobs[preview.readmeId].readme_content
        /\ ~preview.isLoading

C13_Witness ==
    /\ route = "preview"
    /\ ev.type = "poll_resolved"
    /\ ev.nav = ""
    /\ preview.showSuccess
    /\ preview.content = "# widgets"

\* the detail of a failed record as the poller reports it
ErrorDetailOf(rec) == IF rec.readme_content # "" THEN rec.readme_content ELSE FailedMsg

\* C14: when the page on screen learns that its job is `failed`, from the
\* first fetch of loadReadme or from a fetch of its poll, it shows the detail
\* of the job and offers a way back to the landing page.
C14_FailedShowsDetail ==
    [][ /\ \A i \in 1..Len(loads) :
              (/\ loads[i].mounted
               /\ jobs[loads[i].job].status = "failed"
               /\ LoadResponse(i)) =>
                  (ShownError' = ErrorDetailOf(jobs[loads[i].job]) /\ RestartOffered')
        /\ \A k \in 1..Len(pollers) :
              (/\ pollers[k].mounted
               /\ pollers[k].owner \in {"loading", "preview"}
               /\ jobs[pollers[k].job].status = "failed"
               /\ PollResponse(k)) =>
                  (ShownError' = ErrorDetailOf(jobs[pollers[k].job]) /\ RestartOffered')
      ]_vars

----
(* Properties of the editor, under EditorSpec *)

\* C15: an edit changes the buffer and nothing else: it sends no request, and
\* leaves every job record and the id of the page as they were; creation
\* requests are sent by Regenerate only and acknowledgements by Download only.
C15_EditsAreLocal ==
    [][ /\ ev'.type = "edit" =>
              /\ jobs' = jobs
              /\ creates' = creates /\ loads' = loads /\ pollers' = pollers
              /\ acks' = acks
              /\ storage' = storage
              /\ preview'.readmeId = preview.readmeId
        /\ Len(creates') > Len(creates) => ev'.type = "regen_sent"
        /\ Len(acks') > Len(acks) => ev'.type = "download"
      ]_vars

C15_Witness ==
    /\ ev.type = "edit"
    /\ preview.content = "# widgets, edited"
    /\ preview.readmeId = 1
    /\ jobs[1].status = "completed"
    /\ jobs[1].readme_content = "# widgets"

\* C16: a regeneration makes a new job under a new id and sends nothing that
\* changes an existing job: every record that existed keeps its content
\* through each task of a regeneration, whether the regeneration succeeds or
\* not, and a completed record is never changed at all.
C16_RegenerateLeavesOriginal ==
    [][ /\ ev'.type = "regen_created" =>
              /\ Len(jobs') = Len(jobs) + 1
              /\ ev'.n = Len(jobs')
              /\ \A j \in 1..Len(jobs) : jobs'[j] = jobs[j]
              /\ acks' = acks
        /\ ev'.type \in {"regen_sent", "regen_no_url", "regen_rejected"} =>
              (jobs' = jobs /\ acks' = acks)
        /\ (\E k \in 1..Len(pollers) : pollers[k].owner = "regen"
                                        /\ (PollResponse(k) \/ PollFetchError(k) \/ PollTimer(k))) =>
              (jobs' = jobs /\ acks' = acks)
        /\ \A j \in 1..Len(jobs) :
              jobs[j].status = "completed" => jobs'[j] = jobs[j]
      ]_vars

C16_Witness ==
    /\ ev.type = "poll_resolved"
    /\ route = "preview"
    /\ preview.readmeId = 2
    /\ preview.showSuccess
    /\ jobs[1].status = "completed"
    /\ jobs[1].readme_content = "# widgets"

\* C17: a failed acknowledgement shows nothing and changes nothing of the
\* page (buffer, id, error); the download it belongs to had already saved the
\* buffer and reported success when the acknowledgement was sent.
C17_AckFailureSwallowed ==
    [][ /\ ev'.type = "ack_failed" =>
              /\ ev'.toast = ""
              /\ ev'.nav = ""
              /\ preview' = preview
              /\ hist' = hist /\ idx' = idx
              /\ jobs' = jobs
        /\ ev'.type = "download" =>
              /\ ev'.toast = DownloadToast
              /\ preview' = preview
      ]_vars

C17_Witness ==
    /\ ev.type = "ack_failed"
    /\ route = "preview"
    /\ acks = <<>>
    /\ preview.content = "# widgets, edited"
    /\ preview.readmeId = 1
    /\ ~ErrorPage

\* C18: every error but the failed acknowledgement reaches the user: the task
\* in which a page still on screen learns of a rejected submission, a failed
\* or timed-out poll, a failed fetch, a failed job or a rejected regeneration
\* ends with a toast, a redirect or an error text on screen.
C18_ErrorsAreSurfaced ==
    [][ LET surfaced == ev'.toast # "" \/ ev'.nav # "" \/ ShownError' # ""
        IN /\ (/\ ev'.live
                /\ ev'.type \in {"invalid_local", "rejected", "poll_rejected",
                                  "load_error", "regen_rejected", "regen_no_url"}) =>
                  surfaced
           /\ \A i \in 1..Len(loads) :
                 (/\ loads[i].mounted
                  /\ jobs[loads[i].job].status = "failed"
                  /\ LoadResponse(i)) => surfaced
      ]_vars

----
(* Properties of the Synchronizer, under SyncSpec *)

Abs(x) == IF x >= 0 THEN x ELSE -x

\* pane B at topB is at the fraction of pane A at topA, within one pixel of B:
\* | topB - (topA / max(1, extA)) * max(1, extB) | <= 1
FractionsAgree(topA, extA, topB, extB) ==
    Abs(topB * Max(1, extA) - Min(topA, Max(1, extA)) * Max(1, extB)) <= Max(1, extA)

\* C19: when the scroll event of a user's scroll of one pane has been handled
\* (and nothing threw), the other pane is at the same fraction, within
\* rounding; from the editor to the preview and from the preview to the editor.
C19_FractionIsApplied ==
    /\ (ev.type = "editor_scroll" /\ ev.n # 2) =>
          FractionsAgree(sync.edTop, sync.edExt, sync.pvTop, sync.pvExt)
    /\ (ev.type = "preview_scroll_user" /\ ev.n # 2) =>
          FractionsAgree(sync.pvTop, sync.pvExt, sync.edTop, sync.edExt)

\* the same, for the handlers that got as far as their assignment
C19_Computation ==
    /\ (ev.type = "editor_scroll" /\ ev.n = 1) =>
          FractionsAgree(sync.edTop, sync.edExt, sync.pvTop, sync.pvExt)
    /\ (ev.type = "preview_scroll_user" /\ ev.n = 1) =>
          FractionsAgree(sync.pvTop, sync.pvExt, sync.edTop, sync.edExt)

\* C20: the scroll event a pane emits because the Synchronizer scrolled it
\* is never answered by an assignment to the pane the user scrolled: such an
\* event of the preview finds the guard set, and the handler of a preview
\* scroll never moves the preview.
C20_NoWriteBack ==
    [][ /\ ev'.type = "preview_scroll_program" =>
              (ev'.n = 0 /\ sync'.edTop = sync.edTop)
        /\ ev'.type \in {"preview_scroll_program", "preview_scroll_user"} =>
              sync'.pvTop = sync.pvTop
      ]_vars

\* C21: a guard that a handler has set is released: a release timer is
\* pending for as long as the guard is set, also when the handler caught an
\* error, so the guard is eventually false again; and a handler that returns
\* at once (guard set, or a pane missing) changes neither guard nor timers.
C21_GuardReleased ==
    /\ [](sync.guard => sync.timers > 0)
    /\ (sync.guard ~> ~sync.guard)
    /\ [][ (ev'.type \in {"editor_scroll", "editor_scroll_again",
                            "preview_scroll_user", "preview_scroll_program"}
             /\ ev'.n = 0) =>
               (sync'.guard = sync.guard /\ sync'.timers = sync.timers) ]_vars

C21_Witness ==
    /\ ev.type = "editor_scroll"
    /\ ev.n = 2
    /\ sync.guard
    /\ sync.timers = 1

\* C22: the value a handler assigns to the other pane's scrollTop lies within
\* [0, extent of that pane], for all extents, zero included; and both panes
\* stay within their range.
C22_WrittenOffsetInRange ==
    /\ (ev.type = "editor_scroll" /\ ev.n = 1) =>
          (0 <= sync.wrote[1] /\ sync.wrote[1] <= sync.pvExt * sync.wrote[2])
    /\ (ev.type \in {"preview_scroll_user", "preview_scroll_program"} /\ ev.n = 1) =>
          (0 <= sync.wrote[1] /\ sync.wrote[1] <= sync.edExt * sync.wrote[2])
    /\ sync.edTop \in 0..sync.edExt
    /\ sync.pvTop \in 0..sync.pvExt

\* the panes themselves never leave their range
C22_PanesInRange ==
    /\ sync.edTop \in 0..sync.edExt
    /\ sync.pvTop \in 0..sync.pvExt

\* the Synchronizer once its guard has been released
Released(s) == [s EXCEPT !.guard = FALSE]

----
(* Further properties of the editor, under EditorSpec *)

\* C24: when loadReadme fails on a page still on screen (its first fetch
\* rejects, or its poll rejects with the failure of the job, the timeout or a
\* fetch error), the editor view is on screen afterwards.
C24_EditorStaysOpen ==
    [][ /\ \A i \in 1..Len(loads) :
              (loads[i].mounted /\ LoadError(i)) => EditorView'
        /\ \A k \in 1..Len(pollers) :
              (/\ pollers[k].owner = "preview"
               /\ pollers[k].mounted
               /\ ev'.type = "poll_rejected"
               /\ (PollResponse(k) \/ PollFetchError(k) \/ PollTimer(k))) => EditorView'
      ]_vars

\* the poll of a regeneration resolves with content on the page that started it
RegenSucceeds(k) ==
    /\ pollers[k].owner = "regen"
    /\ pollers[k].mounted
    /\ PollResponse(k)
    /\ ev'.type = "poll_resolved"
    /\ jobs[pollers[k].job].readme_content # ""

\* C25: a download sends the acknowledgement for the current job id, and none
\* when there is no id; the current job id is the one of the URL until a
\* regeneration completes with content, which makes it the id of the new job,
\* different from the one before; nothing else changes it while the page lives.
C25_AckTargetsCurrentJob ==
    /\ [][ ev'.type = "download" =>
              acks' = IF preview.readmeId # 0 THEN Append(acks, preview.readmeId)
                      ELSE acks ]_vars
    /\ [][ \A k \in 1..Len(pollers) :
              RegenSucceeds(k) => /\ preview'.readmeId = pollers[k].job
                                  /\ preview'.readmeId # preview.readmeId
                                  /\ preview'.readmeId # hist[idx].id ]_vars
    /\ [][ preview'.readmeId # preview.readmeId =>
              \/ ev'.type = "reload"
              \/ \E k \in 1..Len(pollers) : RegenSucceeds(k) ]_vars

\* a download after a successful regeneration: the acknowledgement in flight is
\* for the new job, not for the job of the URL
C25_Witness ==
    /\ ev.type = "download"
    /\ hist[idx].id = 1
    /\ preview.readmeId = 2
    /\ acks # <<>>
    /\ acks[Len(acks)] = 2

\* a download on the page without an id: no acknowledgement is sent
C25_SkippedReached ==
    /\ ev.type = "download"
    /\ ev.n = 0
    /\ acks = <<>>

----
(* Further properties of the Issuer, under IssuerSpec *)

\* C26: while isSubmitting is true (a creation request of the page is in
\* flight) no user action sends another creation request.
C26_NoSecondCreation ==
    [][ (route = "landing" /\ tab.isSubmitting) => ev'.type # "create_sent" ]_vars

----
(* Further properties of the Status Poller, under PollSpec *)

\* C27: when a status fetch rejects, at whatever attempt, the call settles in
\* that step with the error of the fetch, which is neither the timeout nor the
\* failure of the job; no fetch and no wait follows.
C27_FetchErrorIsFinal ==
    /\ [][ \A k \in 1..Len(pollers) :
              PollFetchError(k) =>
                /\ pollers'[k].pc = "done"
                /\ pollers'[k].out = Rejected(NetworkMsg)
                /\ pollers'[k].out.msg \notin {TimeoutMsg, FailedMsg}
                /\ pollers'[k].fetches = pollers[k].fetches
                /\ pollers'[k].delays = pollers[k].delays ]_vars
    /\ [][ \A k \in 1..Len(pollers) :
              pollers[k].seen = "error" => pollers'[k] = pollers[k] ]_vars

\* a fetch that rejected after an earlier attempt had answered and waited
C27_Witness ==
    /\ pollers # <<>>
    /\ pollers[1].seen = "error"
    /\ pollers[1].attempt >= 1
    /\ pollers[1].fetches = pollers[1].attempt + 1
    /\ pollers[1].attempt + 1 < pollers[1].maxAttempts

----
(* Regeneration, under EditorSpec *)

\* a step of handleRegenerate that is not its success with content: the action
\* itself, the creation call settling, a step of its poll
RegenStepWithoutSuccess ==
    \/ ev'.type \in {"regen_sent", "regen_created", "regen_rejected"}
    \/ \E k \in 1..Len(pollers) :
          /\ pollers[k].owner = "regen"
          /\ PollResponse(k) \/ PollFetchError(k) \/ PollTimer(k)
          /\ ~RegenSucceeds(k)

\* C28: from the regenerate action until the regeneration succeeds with
\* content, every step leaves the buffer and the current job id as they were,
\* so that a regeneration that fails (creation rejected, failed job, timeout,
\* fetch error) or completes with empty content ends with the buffer and the
\* job id of before the regenerate action.
C28_FailedRegenerationKeepsBuffer ==
    [][ ((preview.isRegenerating \/ ev'.type = "regen_sent")
          /\ ev'.type # "reload"
          /\ ~(\E k \in 1..Len(pollers) : RegenSucceeds(k)))
        => (preview'.content = preview.content /\ preview'.readmeId = preview.readmeId)
      ]_vars

\* the steps of handleRegenerate themselves, short of its success with content,
\* assign neither the buffer nor the job id
C28_RegenerationStepsKeepBuffer ==
    [][ RegenStepWithoutSuccess =>
          (preview'.content = preview.content /\ preview'.readmeId = preview.readmeId)
      ]_vars

\* a regeneration of an edited buffer has completed with empty content: the
\* page is no longer regenerating and still holds the edited buffer and job 1
C28_EmptyContentReached ==
    /\ ev.type = "poll_resolved"
    /\ ev.live
    /\ Len(jobs) = 2
    /\ jobs[2].status = "completed"
    /\ jobs[2].readme_content = ""
    /\ pollers = <<>>
    /\ ~preview.isRegenerating
    /\ preview.readmeId = 1
    /\ preview.content = "# widgets, edited"

\* the regenerations of the current page that have not settled: creation
\* calls in flight and polls running
RegenerationsInProgress ==
    Cardinality({i \in 1..Len(creates) :
                    creates[i].owner = "preview" /\ creates[i].mounted})
    + Cardinality({k \in 1..Len(pollers) :
                    pollers[k].owner = "regen" /\ pollers[k].mounted})

\* C29: at most one regeneration of the page is in progress; isRegenerating is
\* true exactly while one is (from the creation call until the call or the poll
\* settles, whatever the exit path), and no regeneration starts while it is true.
C29_OneRegeneration ==
    /\ [](RegenerationsInProgress <= 1)
    /\ [](preview.isRegenerating <=> RegenerationsInProgress = 1)
    /\ [][ preview.isRegenerating => ev'.type # "regen_sent" ]_vars

\* a regeneration whose poll is waiting for its next attempt
C29_Witness ==
    /\ preview.isRegenerating
    /\ creates = <<>>
    /\ \E k \in 1..Len(pollers) :
          pollers[k].owner = "regen" /\ pollers[k].pc = "waiting"

\* the flag is false again after each exit: empty content, a rejected poll, a
\* rejected creation call
C29_ExitsReached ==
    /\ ~preview.isRegenerating
    /\ RegenerationsInProgress = 0
    /\ ev.live
    /\ ev.type \in {"poll_rejected", "regen_rejected"}

----
(* Further properties of the Synchronizer, under SyncSpec *)

\* C30: at most one release timer is pending, the guard is set exactly when
\* one is pending, and the timer that fires releases the guard of the handler
\* that scheduled it: no other handler has set the guard in between.
C30_OneReleaseTimer ==
    /\ [](sync.timers <= 1)
    /\ [](sync.guard <=> sync.timers = 1)
    /\ [][ ev'.type = "release" =>
              (sync.guard /\ sync.timers = 1 /\ ~sync'.guard /\ sync'.timers = 0) ]_vars

\* the scroll event of a programmatic scroll reached handlePreviewScroll while
\* the guard was set: it returned at once and one timer is pending
C30_Witness ==
    /\ ev.type = "preview_scroll_program"
    /\ ev.n = 0
    /\ sync.guard
    /\ sync.timers = 1

====
